---- MODULE Spec2Model ----
(***************************************************************************)
(* Model of the Streamlit dashboard dashboard_rumah_v2.py (and of its      *)
(* predecessor dashboard_rumah.py, which is the same script without the    *)
(* mortgage tab).  A Streamlit script is re-run from top to bottom on      *)
(* every user interaction: one action of this model is one interaction     *)
(* followed by the complete render pass it triggers.                       *)
(*                                                                         *)
(* Conventions                                                             *)
(*   - a string is a sequence of one-character strings, so that lower(),   *)
(*     strip() and the search of str.contains() are computed;              *)
(*   - NaN and NULL stand for pandas' missing number and missing text;     *)
(*   - prices are whole numbers of "juta" (millions of rupiah).            *)
(***************************************************************************)
EXTENDS Integers, Sequences, FiniteSets, TLC

VARIABLES
    raw,          \* rows of harga_rumah_clean.csv as read by pd.read_csv
    fileExists,   \* whether harga_rumah_clean.csv is on disk
    data,         \* result of load_data() kept by st.cache_data (None before)
    widgets,      \* Streamlit's widget state of the session (None before the first rendering)
    trigger,      \* what started the last render pass: "rerun", "widget" (a widget was
                  \* changed or the download button pressed) or "hitung" (the button)
    status,       \* how the last render pass ended
    prev_status,  \* history: how the render pass before the last one ended
    df_filtered,  \* the Filtered View built by the last pass
    agg,          \* KPI and per-city aggregates of the last pass (None if not computed)
    top_listings, \* table of the most expensive listings shown by the last pass
    csv,          \* payload handed to st.download_button by the last pass
    harga_juta,   \* price (juta) the mortgage tab holds in the last pass
    kpr           \* what the "Hitung Simulasi KPR" block did in the last pass

vars == <<raw, fileExists, data, widgets, trigger, status, prev_status, df_filtered,
          agg, top_listings, csv, harga_juta, kpr>>

\* pandas' NaN in a numeric column: a value outside every number of the data
NaN == -999

\* pandas' NaN in a text column (no text is made of this one "character")
NULL == <<"NaN">>

\* an optional value: None, or Some(v)
None == <<>>

Some(v) == <<v>>

Get(o) == o[1]

(***************************************************************************)
(* Generic helpers                                                         *)
(***************************************************************************)
Range(s) == {s[i] : i \in DOMAIN s}

Min(a, b) == IF a <= b THEN a ELSE b

SetMin(S) == CHOOSE x \in S : \A y \in S : x <= y

SetMax(S) == CHOOSE x \in S : \A y \in S : x >= y

\* the record with the fields of f and those of g that f has not
Merge(f, g) ==
    [k \in DOMAIN f \cup DOMAIN g |-> IF k \in DOMAIN f THEN f[k] ELSE g[k]]

RECURSIVE SumSeq(_)
SumSeq(s) == IF s = <<>> THEN 0 ELSE Head(s) + SumSeq(Tail(s))

(***************************************************************************)
(* Strings                                                                 *)
(***************************************************************************)
Lower(c) == IF c = "A" THEN "a" ELSE IF c = "B" THEN "b" ELSE c

\* str.lower()
StrLower(s) == [i \in DOMAIN s |-> Lower(s[i])]

IsSpace(c) == c = " "

\* str.strip(): leading and trailing whitespace removed
RECURSIVE LStrip(_)
LStrip(s) == IF s # <<>> /\ IsSpace(Head(s)) THEN LStrip(Tail(s)) ELSE s

RECURSIVE RStrip(_)
RStrip(s) ==
    IF s # <<>> /\ IsSpace(s[Len(s)]) THEN RStrip(SubSeq(s, 1, Len(s) - 1)) ELSE s

Strip(s) == RStrip(LStrip(s))

\* plain substring test: pat occurs in s
IsSubstring(pat, s) ==
    \E i \in 1..(Len(s) - Len(pat) + 1) : SubSeq(s, i, i + Len(pat) - 1) = pat

\* re.search(pat, s) for the patterns of the model's alphabet: "." is the
\* regular-expression wildcard (any character), every other character of the
\* alphabet stands for itself
RegexMatchAt(pat, s, i) ==
    \A j \in 1..Len(pat) : pat[j] = "." \/ pat[j] = s[i + j - 1]

RegexSearch(pat, s) ==
    \E i \in 1..(Len(s) - Len(pat) + 1) : RegexMatchAt(pat, s, i)

\* Series.str.contains(pat, na=False): regex=True is the pandas default
StrContainsPlain(s, pat) == IF s = NULL THEN FALSE ELSE IsSubstring(pat, s)

StrContains(s, pat) == IF s = NULL THEN FALSE ELSE RegexSearch(pat, s)

\* Series.str.lower() keeps NaN
SeriesLower(s) == IF s = NULL THEN NULL ELSE StrLower(s)

(***************************************************************************)
(* The data file.  A raw row holds the cells of harga_rumah_clean.csv as   *)
(* text; "index" is the row label of the DataFrame (RangeIndex), which     *)
(* filtering and sorting keep.                                             *)
(***************************************************************************)
Str(a) == <<a>>

Str2(a, b) == <<a, b>>

RawRow(i, c, l, t, p, a, bd, bt) ==
    [index |-> i, city |-> c, location |-> l, title |-> t,
     price |-> p, area |-> a, bedrooms |-> bd, bathrooms |-> bt]

\* seven listings: equal prices (rows 0, 1), a missing location and a missing
\* title, a plot of area 0 and an unparsable price (row 6)
CsvA ==
    << RawRow(0, "Bogor", Str2("a", "b"), Str("A"),       Str("5"), Str("2"), Str("2"), Str("1")),
       RawRow(1, "Depok", Str("b"),       Str2("b", "a"), Str("5"), Str("1"), Str("1"), Str("2")),
       RawRow(2, "Bogor", NULL,           Str("b"),       Str("4"), Str("2"), Str("2"), Str("2")),
       RawRow(3, "Depok", Str("b"),       NULL,           Str("3"), Str("0"), Str("1"), Str("1")),
       RawRow(4, "Bogor", Str2("B", "b"), Str("b"),       Str("2"), Str("1"), Str("1"), Str("1")),
       RawRow(5, "Depok", Str("b"),       Str("b"),       Str("1"), Str("2"), Str("2"), Str("1")),
       RawRow(6, "Bogor", Str("a"),       Str("a"),       Str("b"), Str("1"), Str("1"), Str("1")) >>

CsvFiles == {CsvA}

Digits == <<"0", "1", "2", "3", "4", "5", "6", "7", "8", "9">>

IsDigit(c) == \E d \in DOMAIN Digits : Digits[d] = c

DigitValue(c) == (CHOOSE d \in DOMAIN Digits : Digits[d] = c) - 1

RECURSIVE ParseDigits(_, _)
ParseDigits(s, acc) ==
    IF s = <<>> THEN acc ELSE ParseDigits(Tail(s), 10 * acc + DigitValue(Head(s)))

\* pd.to_numeric(col, errors="coerce"): a cell that is not a number becomes NaN
ToNumeric(cell) ==
    IF cell # <<>> /\ \A i \in DOMAIN cell : IsDigit(cell[i])
    THEN ParseDigits(cell, 0)
    ELSE NaN

\* an exact quotient num/den with den > 0
Rat(n, d) == [num |-> n, den |-> d]

\* NaN as the result of a float division or of the mean of nothing
NaNRat == [num |-> 0, den |-> 0]

\* np.where(area > 0, price / area, nan): a comparison with NaN is False, and
\* NaN / area is NaN
PricePerM2(price, area) ==
    IF area # NaN /\ area > 0
    THEN (IF price = NaN THEN NaNRat ELSE Rat(price, area))
    ELSE NaNRat

NormalizeRow(r) ==
    LET price == ToNumeric(r.price)
        area == ToNumeric(r.area)
    IN [index |-> r.index, city |-> r.city, location |-> r.location,
        title |-> r.title, price |-> price, area |-> area,
        bedrooms |-> ToNumeric(r.bedrooms), bathrooms |-> ToNumeric(r.bathrooms),
        price_per_m2 |-> PricePerM2(price, area)]

load_data(csvRows) == [i \in DOMAIN csvRows |-> NormalizeRow(csvRows[i])]

\* Series.min() / Series.max(): NaN skipped
Column(df, f) == {df[i][f] : i \in DOMAIN df} \ {NaN}

ColMin(df, f) == SetMin(Column(df, f))

ColMax(df, f) == SetMax(Column(df, f))

\* sorted(df["city"].dropna().unique().tolist()), kept as the set of options
kota_options(df) == {df[i].city : i \in DOMAIN df}

(***************************************************************************)
(* Sidebar: the Filter Criteria                                            *)
(***************************************************************************)
\* a comparison with NaN is False
Between(x, lo, hi) == x # NaN /\ lo <= x /\ x <= hi

AtLeast(x, m) == x # NaN /\ x >= m

\* lines 126-132: the boolean mask of the five column predicates
BaseMask(r, w) ==
    /\ r.city \in w.filter_kota
    /\ Between(r.price, w.filter_price[1], w.filter_price[2])
    /\ Between(r.area, w.filter_area[1], w.filter_area[2])
    /\ AtLeast(r.bedrooms, w.filter_bedrooms)
    /\ AtLeast(r.bathrooms, w.filter_bathrooms)

\* lines 134-139: the keyword mask, applied only when keyword.strip() is not empty
KeywordMask(r, keyword) ==
    LET kw == StrLower(Strip(keyword))
    IN \/ Strip(keyword) = <<>>
       \/ StrContains(SeriesLower(r.title), kw)
       \/ StrContains(SeriesLower(r.location), kw)

RowMask(r, w) == BaseMask(r, w) /\ KeywordMask(r, w.keyword)

ApplyFilter(df, w) ==
    LET Keep(r) == RowMask(r, w) IN SelectSeq(df, Keep)

(***************************************************************************)
(* Aggregates over a non-empty Filtered View                               *)
(***************************************************************************)
RatLess(a, b) == a.num * b.den < b.num * a.den

RatAdd(a, b) == Rat(a.num * b.den + b.num * a.den, a.den * b.den)

\* the non-NaN values of a column, in row order
Values(df, f) ==
    LET col == [i \in DOMAIN df |-> df[i][f]]
        NotNaN(x) == x # NaN
    IN SelectSeq(col, NotNaN)

\* Series.mean(): NaN skipped; NaN for no value at all
Mean(vals) == IF vals = <<>> THEN NaNRat ELSE Rat(SumSeq(vals), Len(vals))

RECURSIVE SortInts(_)
SortInts(s) ==
    IF s = <<>> THEN <<>>
    ELSE LET m == SetMin(Range(s))
             i == CHOOSE k \in DOMAIN s : s[k] = m
         IN <<m>> \o SortInts(SubSeq(s, 1, i - 1) \o SubSeq(s, i + 1, Len(s)))

\* Series.median(): the middle value, or the mean of the two middle values
Median(vals) ==
    LET v == SortInts(vals)
        n == Len(v)
    IN IF n = 0 THEN NaNRat
       ELSE IF n % 2 = 1 THEN Rat(v[(n + 1) \div 2], 1)
       ELSE Rat(v[n \div 2] + v[n \div 2 + 1], 2)

RECURSIVE RatSum(_)
RatSum(s) == IF s = <<>> THEN Rat(0, 1) ELSE RatAdd(Head(s), RatSum(Tail(s)))

\* mean of price_per_m2, NaN skipped
MeanRat(df) ==
    LET col == [i \in DOMAIN df |-> df[i].price_per_m2]
        NotNaN(x) == x # NaNRat
        vals == SelectSeq(col, NotNaN)
        total == RatSum(vals)
    IN IF vals = <<>> THEN NaNRat ELSE Rat(total.num, total.den * Len(vals))

\* sort_values(ascending=False) with pandas' default kind="quicksort", which
\* is not a stable sort: the items come out by key descending, and items of
\* equal key in an order the library does not promise.  items is a sequence
\* of records with a field key (a Rat); the result is the set of orders the
\* call may return.
RECURSIVE DescOrdersOf(_, _)
DescOrdersOf(items, S) ==
    IF S = {} THEN {<<>>}
    ELSE LET top == {i \in S : \A j \in S : ~RatLess(items[i].key, items[j].key)}
         IN UNION {{<<items[i]>> \o t : t \in DescOrdersOf(items, S \ {i})} : i \in top}

\* the one order a stable sort returns
RECURSIVE DescStableOf(_, _)
DescStableOf(items, S) ==
    IF S = {} THEN {<<>>}
    ELSE LET top == {i \in S : \A j \in S : ~RatLess(items[i].key, items[j].key)}
             i == SetMin(top)
         IN {<<items[i]>> \o t : t \in DescStableOf(items, S \ {i})}

SortValuesDesc(items) == DescOrdersOf(items, DOMAIN items)

\* df_filtered.sort_values("price", ascending=False)
SortByPriceDesc(df) ==
    LET items == [i \in DOMAIN df |-> [key |-> Rat(df[i].price, 1), row |-> df[i]]]
    IN {[i \in DOMAIN o |-> o[i].row] : o \in SortValuesDesc(items)}

\* DataFrame.head(n)
HeadRows(df, n) == SubSeq(df, 1, Min(n, Len(df)))

TopColumns == {"index", "city", "location", "title", "price", "area", "bedrooms", "bathrooms"}

Project(r, cols) == [f \in cols |-> r[f]]

\* lines 237-243: the tables the top-N step may return
TopListings(df, n) ==
    {[i \in DOMAIN HeadRows(o, n) |-> Project(o[i], TopColumns)] : o \in SortByPriceDesc(df)}

\* groupby("city") puts the groups in the order of the sorted city names
CityOrder == <<"Bogor", "Depok">>

RowsOfCity(df, c) == LET In(r) == r.city = c IN SelectSeq(df, In)

GroupCities(df) ==
    LET Present(c) == \E i \in DOMAIN df : df[i].city = c
    IN SelectSeq(CityOrder, Present)

\* df_filtered.groupby("city")["price"].median().sort_values(ascending=False).reset_index()
CityPrice(df) ==
    LET g == GroupCities(df)
        items == [i \in DOMAIN g |->
                    [key |-> Median(Values(RowsOfCity(df, g[i]), "price")), city |-> g[i]]]
    IN SortValuesDesc(items)

\* df_filtered.groupby("city")["area"].mean().sort_values(ascending=False).reset_index()
CityArea(df) ==
    LET g == GroupCities(df)
        items == [i \in DOMAIN g |->
                    [key |-> Mean(Values(RowsOfCity(df, g[i]), "area")), city |-> g[i]]]
    IN SortValuesDesc(items)

\* lines 151-177 and 194-232: the KPIs, the per-city tables and the charts
Aggregates(df, city_price, city_area) ==
    [total_listing |-> Len(df),
     avg_price |-> Mean(Values(df, "price")),
     median_price |-> Median(Values(df, "price")),
     avg_area |-> Mean(Values(df, "area")),
     avg_price_m2 |-> MeanRat(df),
     city_price |-> city_price,
     top_city |-> city_price[1].city,
     city_area |-> city_area,
     charts |-> {"fig1", "fig2", "fig3", "fig4", "fig5"}]

\* df_filtered.to_csv(index=False): header and rows, all columns, no row label
CsvColumns ==
    <<"city", "location", "title", "price", "area", "bedrooms", "bathrooms", "price_per_m2">>

ToCsv(df) ==
    [header |-> CsvColumns,
     rows |-> [i \in DOMAIN df |-> [c \in DOMAIN CsvColumns |-> df[i][CsvColumns[c]]]]]

(***************************************************************************)
(* IEEE-754 double arithmetic, as far as the zero-rate branch of the       *)
(* mortgage calculation needs it.  A natural number is a sequence of bits, *)
(* most significant first (TLC's integers have 32 bits, a double's         *)
(* significand has 53).  A double is [sign, man, exp] of value             *)
(* sign * man * 2^exp with man of exactly MantissaBits bits (leading bit   *)
(* 1), or man = <<>> for zero.                                             *)
(***************************************************************************)
MantissaBits == 53

\* numbers are cut into limbs of LimbBits bits, so that a carry chain is a
\* recursion over a few limbs and not over every bit
LimbBits == 13

LimbBase == 2 ^ LimbBits

Zeros(n) == [i \in 1..n |-> 0]

\* the bits of n < 2^30, without leading zeros
BitLen(n) == CHOOSE l \in 0..30 : n < 2 ^ l /\ (l = 0 \/ n >= 2 ^ (l - 1))

Bits(n) == [i \in 1..BitLen(n) |-> (n \div (2 ^ (BitLen(n) - i))) % 2]

\* the bits of a limb, LimbBits of them
BitsOfLimb(v) == [i \in 1..LimbBits |-> (v \div (2 ^ (LimbBits - i))) % 2]

RECURSIVE LimbValue(_, _)
LimbValue(c, acc) ==
    IF c = <<>> THEN acc
    ELSE IF acc < 0 THEN acc
    ELSE LimbValue(Tail(c), 2 * acc + Head(c))

\* b as limbs, most significant first (zeros added in front)
Limbs(b) ==
    LET n == (Len(b) + LimbBits - 1) \div LimbBits
        padded == Zeros(n * LimbBits - Len(b)) \o b
    IN [i \in 1..n |-> LimbValue(SubSeq(padded, (i - 1) * LimbBits + 1, i * LimbBits), 0)]

RECURSIVE BitsOfLimbs(_)
BitsOfLimbs(ls) ==
    IF ls = <<>> THEN <<>> ELSE BitsOfLimb(Head(ls)) \o BitsOfLimbs(Tail(ls))

StripZeros(b) ==
    IF \A i \in DOMAIN b : b[i] = 0 THEN <<>>
    ELSE SubSeq(b, SetMin({i \in DOMAIN b : b[i] = 1}), Len(b))

Front(b) == SubSeq(b, 1, Len(b) - 1)

\* ls * k + carry on limbs, for a small k
RECURSIVE MulLimbs(_, _, _)
MulLimbs(ls, k, carry) ==
    IF ls = <<>> THEN <<carry>>
    ELSE LET t == ls[Len(ls)] * k + carry
         IN IF t < 0 THEN <<>>
            ELSE MulLimbs(Front(ls), k, t \div LimbBase) \o <<t % LimbBase>>

\* b * k + carry for 0 < k < 2^14
MulSmall(b, k, carry) == StripZeros(BitsOfLimbs(MulLimbs(Limbs(b), k, carry)))

\* long division of limbs by a small k, rem the remainder carried in
RECURSIVE DivLimbs(_, _, _)
DivLimbs(ls, k, rem) ==
    IF ls = <<>> THEN [q |-> <<>>, r |-> rem]
    ELSE LET t == rem * LimbBase + Head(ls)
             rest == DivLimbs(Tail(ls), k, t % k)
         IN IF t < 0 THEN [q |-> <<>>, r |-> 0]
            ELSE [q |-> <<t \div k>> \o rest.q, r |-> rest.r]

\* quotient (as bits, leading zeros possible) and remainder of b by 0 < k < 2^10
DivSmall(b, k, rem) ==
    LET d == DivLimbs(Limbs(b), k, rem)
    IN [q |-> BitsOfLimbs(d.q), r |-> d.r]

\* b + 1
Inc(b) ==
    IF \A i \in DOMAIN b : b[i] = 1 THEN <<1>> \o Zeros(Len(b))
    ELSE LET z == SetMax({i \in DOMAIN b : b[i] = 0})
         IN SubSeq(b, 1, z - 1) \o <<1>> \o Zeros(Len(b) - z)

\* a < b for bit sequences of the same length
BitsLess(a, b) ==
    \E i \in DOMAIN a : a[i] < b[i] /\ \A j \in 1..(i - 1) : a[j] = b[j]

\* x - y - borrow on limb sequences of the same length, x >= y + borrow
RECURSIVE SubLimbs(_, _, _)
SubLimbs(x, y, borrow) ==
    IF x = <<>> THEN <<>>
    ELSE LET t == x[Len(x)] - y[Len(y)] - borrow
         IN IF t < 0
            THEN SubLimbs(Front(x), Front(y), 1) \o <<t + LimbBase>>
            ELSE SubLimbs(Front(x), Front(y), 0) \o <<t>>

\* a - b for bit sequences of the same length, a >= b
BitsSub(a, b, borrow) ==
    LET d == BitsOfLimbs(SubLimbs(Limbs(a), Limbs(b), borrow))
    IN SubSeq(d, Len(d) - Len(a) + 1, Len(d))

FloatZero == [sign |-> 1, man |-> <<>>, exp |-> 0]

\* the double nearest to sign * b * 2^e (plus a non-zero rest below the last
\* bit if sticky), ties to even
RoundToDouble(sign, b0, e, sticky) ==
    LET b == StripZeros(b0)
        n == Len(b)
    IN IF n = 0 THEN FloatZero
       ELSE IF n <= MantissaBits
       THEN [sign |-> sign, man |-> b \o Zeros(MantissaBits - n),
             exp |-> e - (MantissaBits - n)]
       ELSE LET man == SubSeq(b, 1, MantissaBits)
                guard == b[MantissaBits + 1]
                rest == sticky \/ \E i \in (MantissaBits + 2)..n : b[i] = 1
                up == guard = 1 /\ (rest \/ man[MantissaBits] = 1)
                m1 == IF up THEN Inc(man) ELSE man
            IN IF Len(m1) > MantissaBits
               THEN [sign |-> sign, man |-> Front(m1), exp |-> e + (n - MantissaBits) + 1]
               ELSE [sign |-> sign, man |-> m1, exp |-> e + (n - MantissaBits)]

\* float(n) for a natural number given by its bits
DoubleOfBits(b) == RoundToDouble(1, b, 0, FALSE)

GuardBits == 12

\* x / k for a double x and an int 0 < k < 2^(GuardBits - 2)
FloatDivInt(x, k) ==
    LET d == DivSmall(x.man \o Zeros(GuardBits), k, 0)
    IN RoundToDouble(x.sign, d.q, x.exp - GuardBits, d.r # 0)

\* x * k for a double x and a small int k > 0
FloatMulInt(x, k) == RoundToDouble(x.sign, MulSmall(x.man, k, 0), x.exp, FALSE)

\* x - y for doubles x, y >= 0
FloatSub(x, y) ==
    IF y.man = <<>> THEN x
    ELSE IF x.man = <<>> THEN [y EXCEPT !.sign = -1]
    ELSE LET e == Min(x.exp, y.exp)
             n == MantissaBits + (x.exp - e) + (y.exp - e)
             xs == Zeros(n - MantissaBits - (x.exp - e)) \o x.man \o Zeros(x.exp - e)
             ys == Zeros(n - MantissaBits - (y.exp - e)) \o y.man \o Zeros(y.exp - e)
             less == BitsLess(xs, ys)
             hi == IF less THEN ys ELSE xs
             lo == IF less THEN xs ELSE ys
         IN RoundToDouble(IF less THEN -1 ELSE 1, BitsSub(hi, lo, 0), e, FALSE)

\* the double after x > 0 and the double before it
FloatNext(x) ==
    LET m == Inc(x.man)
    IN IF Len(m) > MantissaBits THEN [x EXCEPT !.man = Front(m), !.exp = x.exp + 1]
       ELSE [x EXCEPT !.man = m]

FloatPrev(x) ==
    IF x.man = <<1>> \o Zeros(MantissaBits - 1)
    THEN [x EXCEPT !.man = [i \in 1..MantissaBits |-> 1], !.exp = x.exp - 1]
    ELSE [x EXCEPT !.man = BitsSub(x.man, Zeros(MantissaBits - 1) \o <<1>>, 0)]

(***************************************************************************)
(* Natural numbers of any size as sequences of limbs, most significant     *)
(* first, and fixed-point numbers with FracLimbs limbs after the point:    *)
(* they enclose the value of (1 + i_bulanan) ** n_bulan, which no double   *)
(* arithmetic of the model computes exactly.                               *)
(***************************************************************************)
FracLimbs == 6

FracBits == FracLimbs * LimbBits

\* limb i of a, counted from the least significant one
LimbAt(a, i) == IF i < Len(a) THEN a[Len(a) - i] ELSE 0

\* the sum of LimbAt(a, j) * LimbAt(b, k - j) for j in i..k
RECURSIVE ColumnSum(_, _, _, _)
ColumnSum(a, b, k, i) ==
    IF i > k \/ i >= Len(a) THEN 0
    ELSE LimbAt(a, i) * LimbAt(b, k - i) + ColumnSum(a, b, k, i + 1)

RECURSIVE MulColumns(_, _, _, _)
MulColumns(a, b, k, carry) ==
    IF k = Len(a) + Len(b) THEN <<>>
    ELSE LET t == ColumnSum(a, b, k, 0) + carry
         IN IF t < 0 THEN <<>>
            ELSE MulColumns(a, b, k + 1, t \div LimbBase) \o <<t % LimbBase>>

\* a * b, of Len(a) + Len(b) limbs (the shorter factor has at most 7 limbs)
MulBig(a, b) == MulColumns(a, b, 0, 0)

\* a + 1 on limbs (a is not all ones)
IncLimbs(a) ==
    LET z == SetMax({i \in DOMAIN a : a[i] # LimbBase - 1})
    IN [i \in DOMAIN a |-> IF i < z THEN a[i] ELSE IF i = z THEN a[i] + 1 ELSE 0]

\* a with zero limbs in front, n limbs in all
PadLimbs(a, n) == [i \in 1..(n - Len(a)) |-> 0] \o a

\* a < b for limb sequences
LessBig(a, b) ==
    LET n == IF Len(a) > Len(b) THEN Len(a) ELSE Len(b)
        x == PadLimbs(a, n)
        y == PadLimbs(b, n)
    IN \E i \in 1..n : x[i] < y[i] /\ \A j \in 1..(i - 1) : x[j] = y[j]

\* the fixed-point number of a double x = man * 2^exp with exp >= -FracBits,
\* 1 <= x < 2^LimbBits: one limb before the point
FixedOfDouble(x) == PadLimbs(Limbs(x.man \o Zeros(x.exp + FracBits)), FracLimbs + 1)

\* a * b rounded down, and rounded up, for fixed-point a, b with a * b < 2^LimbBits
MulFixedLo(a, b) ==
    LET p == MulBig(a, b)
    IN SubSeq(p, Len(p) - 2 * FracLimbs, Len(p) - FracLimbs)

MulFixedHi(a, b) == IncLimbs(MulFixedLo(a, b))

\* x ** n rounded down, and rounded up, for n >= 1
RECURSIVE PowLo(_, _)
PowLo(x, n) ==
    IF n = 1 THEN x
    ELSE LET h == PowLo(x, n \div 2)
             sq == MulFixedLo(h, h)
         IN IF n % 2 = 0 THEN sq ELSE MulFixedLo(sq, x)

RECURSIVE PowHi(_, _)
PowHi(x, n) ==
    IF n = 1 THEN x
    ELSE LET h == PowHi(x, n \div 2)
             sq == MulFixedHi(h, h)
         IN IF n % 2 = 0 THEN sq ELSE MulFixedHi(sq, x)

\* x + y + carry on limb sequences of the same length, without overflow
RECURSIVE AddLimbs(_, _, _)
AddLimbs(x, y, carry) ==
    IF x = <<>> THEN <<>>
    ELSE LET t == x[Len(x)] + y[Len(y)] + carry
         IN IF t >= LimbBase
            THEN AddLimbs(Front(x), Front(y), 1) \o <<t - LimbBase>>
            ELSE AddLimbs(Front(x), Front(y), 0) \o <<t>>

\* x < y for doubles x, y > 0
FloatLess(x, y) == x.exp < y.exp \/ (x.exp = y.exp /\ BitsLess(x.man, y.man))

FloatOne == [sign |-> 1, man |-> <<1>> \o Zeros(MantissaBits - 1), exp |-> 1 - MantissaBits]

\* 1 + i for a double 0 < i < 1: the sum is exact before it is rounded
OnePlus(i) ==
    RoundToDouble(1, <<1>> \o Zeros(-i.exp - MantissaBits) \o i.man, i.exp, FALSE)

\* line 412: i_bulanan = bunga_tahunan / 12 / 100, for a double bunga_tahunan > 0
IBulanan(bunga_tahunan) == FloatDivInt(FloatDivInt(bunga_tahunan, 12), 100)

\* pow() is within two units in the last place of a result below 1, that is
\* within 2^-PowErrBits; the product, the subtraction and the division of
\* line 416 together change the result by less than 1 part in 2^RoundErrBits
PowErrBits == 51

RoundErrBits == 50

PowErr == PadLimbs(Limbs(<<1>> \o Zeros(FracBits - PowErrBits)), FracLimbs + 1)

\* line 416 for a double 0 < bunga_tahunan <= 20 and pokok_pinjaman > 0:
\*   cicilan_bulanan = pokok_pinjaman * i_bulanan / (1 - (1 + i_bulanan) ** (-n_bulan))
\* 1 + i_bulanan is the double x.  If x is 1.0, or n_bulan is 0, the power
\* is 1.0 and the division is by 0.0.  Otherwise, with g = x ** n_bulan,
\* growth_lo <= g <= growth_hi, the double cicilan_bulanan is
\*   pokok_pinjaman * i_bulanan * g / (g - 1 - d) * (1 + e)
\* for some |d| <= 2^-PowErrBits and |e| <= 2^-RoundErrBits
Cicilan(pokok_pinjaman, bunga_tahunan, n_bulan) ==
    LET i_bulanan == IBulanan(bunga_tahunan)
        x == OnePlus(i_bulanan)
        call == [pokok_pinjaman |-> pokok_pinjaman, bunga_tahunan |-> bunga_tahunan,
                 n_bulan |-> n_bulan]
    IN IF n_bulan = 0 \/ x = FloatOne
       THEN Merge([status |-> "ZeroDivisionError"], call)
       ELSE Merge([status |-> "ok", i_bulanan |-> i_bulanan,
                   growth_lo |-> PowLo(FixedOfDouble(x), n_bulan),
                   growth_hi |-> PowHi(FixedOfDouble(x), n_bulan)], call)

\* g - 1 of a fixed-point g >= 1
MinusOne(g) == [g EXCEPT ![1] = @ - 1]

\* cicilan_bulanan of a is below cicilan_bulanan of b, the same
\* pokok_pinjaman in both, whatever d and e are: the largest value of a is
\* below the smallest value of b, compared without division
CicilanLess(a, b) ==
    /\ a.status = "ok"
    /\ b.status = "ok"
    /\ a.pokok_pinjaman = b.pokok_pinjaman
    /\ LessBig(PowErr, MinusOne(a.growth_lo))
    /\ LET e == Min(a.i_bulanan.exp, b.i_bulanan.exp)
           ia == Limbs(a.i_bulanan.man \o Zeros(a.i_bulanan.exp - e))
           ib == Limbs(b.i_bulanan.man \o Zeros(b.i_bulanan.exp - e))
           up == Limbs(<<1>> \o Zeros(RoundErrBits - 1) \o <<1>>)
           down == Limbs([k \in 1..RoundErrBits |-> 1])
           den_a == SubLimbs(MinusOne(a.growth_lo), PowErr, 0)
           den_b == AddLimbs(MinusOne(b.growth_hi), PowErr, 0)
       IN LessBig(MulBig(den_b, MulBig(up, MulBig(ia, a.growth_lo))),
                  MulBig(den_a, MulBig(down, MulBig(ib, b.growth_hi))))

(***************************************************************************)
(* Tab 4: the mortgage (KPR) simulation, lines 400-443.                    *)
(* Amounts of rupiah are whole numbers of RupiahUnit rupiah: with a price  *)
(* of whole juta and a down payment of whole percent, harga_rumah_rp,      *)
(* dp_rp and pokok_pinjaman are such numbers, and the doubles of the code  *)
(* hold them exactly (they are below 2^53).  bunga_tahunan is in tenths of *)
(* a percent (the slider's step).                                          *)
(***************************************************************************)
RupiahUnit == 10000

\* 1_000_000 rupiah (line 405) in units
JutaUnits == 100

ModeListing == "Pilih dari listing terfilter"

ModeManual == "Input manual"

NoKpr ==
    [status |-> "not_run", shown |-> {}, divisions |-> {},
     pokok_pinjaman |-> 0, n_bulan |-> 0]

\* float(u * RupiahUnit) for a number of units u >= 0
DoubleOfUnits(u) == DoubleOfBits(MulSmall(Bits(u), RupiahUnit, 0))

\* the zero-rate branch dividing by the tenor in years instead of months
ZeroRateAmountsPerYear(pokok_pinjaman, n_bulan) ==
    LET pokok == DoubleOfUnits(pokok_pinjaman)
        cicilan_bulanan == FloatDivInt(pokok, n_bulan \div 12)
        total_bayar == FloatMulInt(cicilan_bulanan, n_bulan)
    IN [cicilan_bulanan |-> cicilan_bulanan, total_bayar |-> total_bayar,
        total_bunga |-> FloatSub(total_bayar, pokok)]

\* lines 418-421 for pokok_pinjaman >= 0 and n_bulan > 0, in doubles
ZeroRateAmounts(pokok_pinjaman, n_bulan) ==
    LET pokok == DoubleOfUnits(pokok_pinjaman)
        cicilan_bulanan == FloatDivInt(pokok, n_bulan)
        total_bayar == FloatMulInt(cicilan_bulanan, n_bulan)
    IN [cicilan_bulanan |-> cicilan_bulanan, total_bayar |-> total_bayar,
        total_bunga |-> FloatSub(total_bayar, pokok)]

\* lines 416-421 for i_bulanan > 0 and n_bulan # 0: the amounts are kept as
\* the expressions of the code, not evaluated; a pokok_pinjaman of 0 gives 0.0
AnnuityAmounts(pokok_pinjaman, bunga_tahunan, n_bulan) ==
    IF pokok_pinjaman = 0
    THEN [cicilan_bulanan |-> FloatZero, total_bayar |-> FloatZero, total_bunga |-> FloatZero]
    ELSE LET cicilan_bulanan ==
                 [expr |-> "pokok_pinjaman * i_bulanan / (1 - (1 + i_bulanan) ** (-n_bulan))",
                  pokok_pinjaman |-> pokok_pinjaman, bunga_tahunan |-> bunga_tahunan,
                  n_bulan |-> n_bulan]
             total_bayar == [expr |-> "cicilan_bulanan * n_bulan", cicilan_bulanan |-> cicilan_bulanan]
         IN [cicilan_bulanan |-> cicilan_bulanan, total_bayar |-> total_bayar,
             total_bunga |-> [expr |-> "total_bayar - pokok_pinjaman", total_bayar |-> total_bayar]]

MetricsShown == {"Harga Rumah", "DP", "Pokok Pinjaman", "Cicilan / bulan"}

SummaryShown ==
    {"Tenor", "Bunga tahunan", "Bunga efektif per bulan", "Total bayar", "Total bunga"}

\* the block under "if st.button(...)": harga is None or Some(price in juta);
\* the double arithmetic covers pokok_pinjaman >= 0 (dp_persen <= 100) and
\* n_bulan >= 0
HitungKPR(harga, dp_persen, bunga_tahunan, tenor_tahun) ==
    IF harga = None \/ (Get(harga) # NaN /\ Get(harga) <= 0)
    THEN [NoKpr EXCEPT !.status = "invalid_price"]
    ELSE IF Get(harga) = NaN
    THEN \* NaN <= 0 is False: the block computes with NaN and shows "nan"
         [NoKpr EXCEPT !.status = "ok", !.shown = MetricsShown \cup SummaryShown \cup {"Rasio"},
                       !.divisions = {416, 438}]
    ELSE
    LET harga_rumah_rp == Get(harga) * JutaUnits
        dp_rp == Get(harga) * dp_persen
        pokok_pinjaman == harga_rumah_rp - dp_rp
        n_bulan == tenor_tahun * 12
        line == IF bunga_tahunan > 0 THEN 416 ELSE 418
        base == [status |-> "ok", shown |-> MetricsShown \cup SummaryShown \cup {"Rasio"},
                 divisions |-> {line, 438},
                 harga_rumah_rp |-> harga_rumah_rp, dp_rp |-> dp_rp,
                 pokok_pinjaman |-> pokok_pinjaman, n_bulan |-> n_bulan]
    IN IF n_bulan = 0
       THEN \* the denominator of line 416 is 1 - 1.0, that of line 418 is 0
            [base EXCEPT !.status = "ZeroDivisionError", !.shown = {}, !.divisions = {line}]
       ELSE LET amounts == IF bunga_tahunan > 0
                           THEN AnnuityAmounts(pokok_pinjaman, bunga_tahunan, n_bulan)
                           ELSE ZeroRateAmounts(pokok_pinjaman, n_bulan)
                done == Merge(base, amounts)
            IN IF pokok_pinjaman = 0
               THEN \* line 438 divides total_bunga by pokok_pinjaman, after the
                    \* metrics and the summary are out
                    [done EXCEPT !.status = "ZeroDivisionError",
                                 !.shown = MetricsShown \cup SummaryShown]
               ELSE done

(***************************************************************************)
(* Widgets.  Streamlit keeps the value of a widget from one run of the     *)
(* script to the next as long as the run reaches it; a widget that a run   *)
(* does not reach (it stopped before, or the other branch was taken) is    *)
(* forgotten and starts again from its default.                            *)
(***************************************************************************)
TopNMin == 5

TopNMax == 30

TopNDefault == 10

HargaDefault == 1000

DpDefault == 20

\* 8.0 percent
BungaDefault == 80

TenorDefault == 15

\* lines 72-123
SidebarDefaults(df) ==
    [filter_kota |-> kota_options(df),
     filter_price |-> <<ColMin(df, "price"), ColMax(df, "price")>>,
     filter_area |-> <<ColMin(df, "area"), ColMax(df, "area")>>,
     filter_bedrooms |-> ColMin(df, "bedrooms"),
     filter_bathrooms |-> ColMin(df, "bathrooms"),
     keyword |-> <<>>]

\* lines 236, 342-346, 362-366, 377-383, 391-397
TabDefaults ==
    [top_n |-> TopNDefault, mode |-> ModeListing, idx |-> 0,
     harga_input |-> HargaDefault, dp_persen |-> DpDefault,
     bunga_tahunan |-> BungaDefault, tenor_tahun |-> TenorDefault]

DefaultWidgets(df) == Merge(SidebarDefaults(df), TabDefaults)

\* the widgets below st.stop() are not reached
ForgetTabWidgets(w) == Merge(TabDefaults, w)

\* the values the model lets the user pick
RangeChoices(df, f) ==
    LET stops == {ColMin(df, f), ColMax(df, f)}
    IN {r \in stops \X stops : r[1] <= r[2]}

MinChoices(df, f) == ColMin(df, f)..ColMax(df, f)

KeywordChoices == {<<>>, <<" ">>, <<" ", "A">>, <<".">>}

TopNChoices == {TopNMin, TopNDefault}

HargaChoices == {50, HargaDefault}

\* a slider that goes up to 100 percent
DpChoicesTo100 == {DpDefault, 100}

DpChoices == {DpDefault, 90}

BungaChoices == {10, BungaDefault}

TenorChoices == {1, TenorDefault}

\* the first and the last of n options
IdxChoices(n) == {0, n - 1}

(***************************************************************************)
(* One run of the script                                                   *)
(***************************************************************************)
\* df_filtered.copy().reset_index(drop=True): the rows relabelled 0, 1, ...
ResetIndex(df) == [i \in DOMAIN df |-> [df[i] EXCEPT !.index = i - 1]]

\* make_label (the price, not its text); str(location)[:25] of a short text
make_label(row) == [city |-> row.city, location |-> row.location, price |-> row.price]

Options(df) == [i \in DOMAIN df |-> make_label(df[i])]

\* the run that a missing data file ends at line 62
MissingFilePass ==
    /\ status' = "missing_file"
    /\ data' = None
    /\ widgets' = None
    /\ df_filtered' = <<>>
    /\ agg' = None
    /\ top_listings' = <<>>
    /\ csv' = None
    /\ harga_juta' = None
    /\ kpr' = NoKpr

\* the same run without the st.stop() of line 144: the KPIs of lines 151-155
\* are computed on the empty frame
EmptyPassNoStop(w) ==
    /\ status' = "empty"
    /\ widgets' = Some(ForgetTabWidgets(w))
    /\ agg' = Some([total_listing |-> 0, avg_price |-> NaNRat, median_price |-> NaNRat,
                    avg_area |-> NaNRat, avg_price_m2 |-> NaNRat])
    /\ top_listings' = <<>>
    /\ csv' = None
    /\ harga_juta' = None
    /\ kpr' = NoKpr

\* the run that an empty Filtered View ends at line 144
EmptyPass(w) ==
    /\ status' = "empty"
    /\ widgets' = Some(ForgetTabWidgets(w))
    /\ agg' = None
    /\ top_listings' = <<>>
    /\ csv' = None
    /\ harga_juta' = None
    /\ kpr' = NoKpr

\* the block of line 400 run without looking at the button
KprOutcomeEveryRun(clicked, harga, w) ==
    HitungKPR(harga, w.dp_persen, w.bunga_tahunan, w.tenor_tahun)

\* line 400: st.button is True only in the run that its press started
KprOutcome(clicked, harga, w) ==
    IF clicked
    THEN HitungKPR(harga, w.dp_persen, w.bunga_tahunan, w.tenor_tahun)
    ELSE NoKpr

\* lines 146-443
FullPass(view, w, clicked) ==
    \E city_price \in CityPrice(view), city_area \in CityArea(view),
       top \in TopListings(view, w.top_n) :
        LET df_sel == ResetIndex(view)
            sameBox == /\ status = "ok"
                       /\ Get(widgets).mode = ModeListing
                       /\ Options(ResetIndex(df_filtered)) = Options(df_sel)
            idx == IF w.mode = ModeListing /\ sameBox THEN w.idx ELSE 0
            w2 == [w EXCEPT !.idx = idx,
                            !.harga_input = IF w.mode = ModeManual THEN @ ELSE HargaDefault]
            harga == IF w.mode = ModeListing
                     THEN Some(df_sel[idx + 1].price)
                     ELSE Some(w2.harga_input)
        IN /\ status' = "ok"
           /\ widgets' = Some(w2)
           /\ agg' = Some(Aggregates(view, city_price, city_area))
           /\ top_listings' = top
           /\ csv' = Some(ToCsv(view))
           /\ harga_juta' = harga
           /\ kpr' = KprOutcome(clicked, harga, w2)

\* a halt that the next run remembers
HaltedSticky(view) == view = <<>> \/ status = "empty"

\* line 142: df_filtered.empty
Halted(view) == view = <<>>

\* the filter applied in place to the cached frame
CachedAfterRunInPlace(df, view) == view

\* what st.cache_data holds after a run: load_data returns a copy of the cached
\* frame, line 64 copies it again, and the filter, the sort and the selection
\* build new frames
CachedAfterRun(df, view) == df

\* the script from line 55 on, with the widget values w the browser sends
\* (None: no widget exists yet) and clicked = the button was pressed
Pass(w, clicked, trig) ==
    /\ trigger' = trig
    /\ prev_status' = status
    /\ UNCHANGED <<raw, fileExists>>
    /\ IF data = None /\ ~fileExists
       THEN MissingFilePass
       ELSE LET df == IF data = None THEN load_data(raw) ELSE Get(data)
                w1 == IF w = None THEN DefaultWidgets(df) ELSE Get(w)
                view == ApplyFilter(df, w1)
            IN /\ data' = Some(CachedAfterRun(df, view))
               /\ df_filtered' = view
               /\ IF Halted(view) THEN EmptyPass(w1) ELSE FullPass(view, w1, clicked)

(***************************************************************************)
(* The user's interactions                                                 *)
(***************************************************************************)
SidebarShown == widgets # None

\* the tabs drawn although the run stopped at line 144
TabsShownAfterHalt == widgets # None

TabsShown == status = "ok"

W == Get(widgets)

\* the page is opened, or reloaded after the data file was missing: the run
\* of a session that has no widget yet
OpenPage == widgets = None /\ Pass(None, FALSE, "rerun")

\* the file is put where the script looks for it
PlaceFile ==
    /\ ~fileExists
    /\ fileExists' = TRUE
    /\ UNCHANGED <<raw, data, widgets, trigger, status, prev_status, df_filtered, agg,
                   top_listings, csv, harga_juta, kpr>>

SetKota ==
    /\ SidebarShown
    /\ \E v \in SUBSET kota_options(Get(data)) :
          v # W.filter_kota /\ Pass(Some([W EXCEPT !.filter_kota = v]), FALSE, "widget")

SetPrice ==
    /\ SidebarShown
    /\ \E v \in RangeChoices(Get(data), "price") :
          v # W.filter_price /\ Pass(Some([W EXCEPT !.filter_price = v]), FALSE, "widget")

SetArea ==
    /\ SidebarShown
    /\ \E v \in RangeChoices(Get(data), "area") :
          v # W.filter_area /\ Pass(Some([W EXCEPT !.filter_area = v]), FALSE, "widget")

SetBedrooms ==
    /\ SidebarShown
    /\ \E v \in MinChoices(Get(data), "bedrooms") :
          v # W.filter_bedrooms /\ Pass(Some([W EXCEPT !.filter_bedrooms = v]), FALSE, "widget")

SetBathrooms ==
    /\ SidebarShown
    /\ \E v \in MinChoices(Get(data), "bathrooms") :
          v # W.filter_bathrooms /\ Pass(Some([W EXCEPT !.filter_bathrooms = v]), FALSE, "widget")

SetKeyword ==
    /\ SidebarShown
    /\ \E v \in KeywordChoices :
          v # W.keyword /\ Pass(Some([W EXCEPT !.keyword = v]), FALSE, "widget")

SetTopN ==
    /\ TabsShown
    /\ \E v \in TopNChoices :
          v # W.top_n /\ Pass(Some([W EXCEPT !.top_n = v]), FALSE, "widget")

SetMode ==
    /\ TabsShown
    /\ \E v \in {ModeListing, ModeManual} :
          v # W.mode /\ Pass(Some([W EXCEPT !.mode = v]), FALSE, "widget")

SelectListing ==
    /\ TabsShown
    /\ W.mode = ModeListing
    /\ \E v \in IdxChoices(Len(df_filtered)) :
          v # W.idx /\ Pass(Some([W EXCEPT !.idx = v]), FALSE, "widget")

SetHarga ==
    /\ TabsShown
    /\ W.mode = ModeManual
    /\ \E v \in HargaChoices :
          v # W.harga_input /\ Pass(Some([W EXCEPT !.harga_input = v]), FALSE, "widget")

SetDp ==
    /\ TabsShown
    /\ \E v \in DpChoices :
          v # W.dp_persen /\ Pass(Some([W EXCEPT !.dp_persen = v]), FALSE, "widget")

SetBunga ==
    /\ TabsShown
    /\ \E v \in BungaChoices :
          v # W.bunga_tahunan /\ Pass(Some([W EXCEPT !.bunga_tahunan = v]), FALSE, "widget")

SetTenor ==
    /\ TabsShown
    /\ \E v \in TenorChoices :
          v # W.tenor_tahun /\ Pass(Some([W EXCEPT !.tenor_tahun = v]), FALSE, "widget")

ClickHitung == TabsShown /\ Pass(widgets, TRUE, "hitung")

\* st.download_button: a press sends the file and runs the script again
ClickDownload == TabsShown /\ Pass(widgets, FALSE, "widget")

Init ==
    /\ raw \in CsvFiles
    /\ fileExists \in BOOLEAN
    /\ data = None
    /\ widgets = None
    /\ trigger = "none"
    /\ status = "not_run"
    /\ prev_status = "not_run"
    /\ df_filtered = <<>>
    /\ agg = None
    /\ top_listings = <<>>
    /\ csv = None
    /\ harga_juta = None
    /\ kpr = NoKpr

Next ==
    \/ OpenPage
    \/ PlaceFile
    \/ SetKota
    \/ SetPrice
    \/ SetArea
    \/ SetBedrooms
    \/ SetBathrooms
    \/ SetKeyword
    \/ SetTopN
    \/ SetMode
    \/ SelectListing
    \/ SetHarga
    \/ SetDp
    \/ SetBunga
    \/ SetTenor
    \/ ClickHitung
    \/ ClickDownload

Spec == Init /\ [][Next]_vars

(***************************************************************************)
(* The mortgage block taken alone, as the calculator                       *)
(* (price, down payment, rate, tenor) -> amounts, called with arguments    *)
(* that the sliders of the page cannot produce as well: a down payment of  *)
(* 100 percent, a rate of 0, a tenor of 0.                                 *)
(***************************************************************************)
CalcHarga == {0, 50, 777, HargaDefault, 50000}

CalcDp == {0, 4, DpDefault, 90, 100}

CalcBunga == {0, BungaDefault}

CalcTenor == {0, 1, 7, TenorDefault, 29, 30}

InitCalc ==
    /\ raw = CsvA
    /\ fileExists = TRUE
    /\ data = None
    /\ \E dp \in CalcDp, bunga \in CalcBunga, tenor \in CalcTenor :
          widgets = Some([TabDefaults EXCEPT !.mode = ModeManual, !.dp_persen = dp,
                                             !.bunga_tahunan = bunga, !.tenor_tahun = tenor])
    /\ trigger = "none"
    /\ status = "calculator"
    /\ prev_status = "calculator"
    /\ df_filtered = <<>>
    /\ agg = None
    /\ top_listings = <<>>
    /\ csv = None
    /\ harga_juta \in {Some(h) : h \in CalcHarga}
    /\ kpr = NoKpr

Calculate ==
    /\ kpr = NoKpr
    /\ kpr' = HitungKPR(harga_juta, W.dp_persen, W.bunga_tahunan, W.tenor_tahun)
    /\ trigger' = "hitung"
    /\ UNCHANGED <<raw, fileExists, data, widgets, status, prev_status, df_filtered,
                   agg, top_listings, csv, harga_juta>>

NextCalc == Calculate

SpecCalc == InitCalc /\ [][NextCalc]_vars

(***************************************************************************)
(* The annuity expression of line 416 taken alone, as the function         *)
(* (pokok_pinjaman, bunga_tahunan, n_bulan) -> cicilan_bulanan, evaluated  *)
(* for two calls that differ in the rate only or in the tenor only.  kpr   *)
(* holds the two calls and the results so far.                             *)
(***************************************************************************)
\* the double of a slider value given in tenths of a percent
RateOfTenths(t) == FloatDivInt(DoubleOfBits(Bits(t)), 10)

\* 2^-43 percent, about 1.1e-13
TinyRate == [sign |-> 1, man |-> <<1>> \o Zeros(MantissaBits - 1), exp |-> -43 - (MantissaBits - 1)]

\* in ascending order
AnnuityRates ==
    <<TinyRate, RateOfTenths(10), RateOfTenths(BungaDefault), RateOfTenths(81),
      RateOfTenths(200)>>

AnnuityTenors == <<1, 2, TenorDefault, 29, 30>>

\* pokok_pinjaman in units of RupiahUnit rupiah
AnnuityPokok == {4800, 80000}

Call(pokok_pinjaman, r, t) ==
    [pokok_pinjaman |-> pokok_pinjaman, bunga_tahunan |-> AnnuityRates[r],
     n_bulan |-> AnnuityTenors[t] * 12]

InitAnnuity ==
    /\ raw = CsvA
    /\ fileExists = TRUE
    /\ data = None
    /\ widgets = None
    /\ trigger = "none"
    /\ status = "annuity"
    /\ prev_status = "annuity"
    /\ df_filtered = <<>>
    /\ agg = None
    /\ top_listings = <<>>
    /\ csv = None
    /\ harga_juta = None
    /\ \E p \in AnnuityPokok, r1, r2 \in DOMAIN AnnuityRates, t1, t2 \in DOMAIN AnnuityTenors :
          /\ (r1 < r2 /\ t1 = t2) \/ (r1 = r2 /\ t1 < t2)
          /\ kpr = [status |-> "calls", calls |-> <<Call(p, r1, t1), Call(p, r2, t2)>>,
                    results |-> <<>>]

\* the next call is evaluated
Evaluate ==
    /\ Len(kpr.results) < Len(kpr.calls)
    /\ LET c == kpr.calls[Len(kpr.results) + 1]
       IN kpr' = [kpr EXCEPT !.results =
                     Append(@, Cicilan(c.pokok_pinjaman, c.bunga_tahunan, c.n_bulan))]
    /\ trigger' = "hitung"
    /\ UNCHANGED <<raw, fileExists, data, widgets, status, prev_status, df_filtered,
                   agg, top_listings, csv, harga_juta>>

NextAnnuity == Evaluate

SpecAnnuity == InitAnnuity /\ [][NextAnnuity]_vars

(***************************************************************************)
(* Properties of the page (Spec)                                           *)
(***************************************************************************)
\* the last run reached the filter step
Filtered == status \in {"ok", "empty"}

\* the keyword predicate of the specification: no keyword after trimming, or
\* the trimmed keyword occurs, case-insensitively and as a plain substring, in
\* the title or in the location; a null text matches nothing
KeywordPredicate(r, keyword) ==
    LET kw == StrLower(Strip(keyword))
    IN \/ kw = <<>>
       \/ (r.title # NULL /\ IsSubstring(kw, StrLower(r.title)))
       \/ (r.location # NULL /\ IsSubstring(kw, StrLower(r.location)))

\* the six predicates of the Filter Criteria w on row r; a null number is in
\* no range and above no minimum
AllPredicates(r, w) ==
    /\ r.city \in w.filter_kota
    /\ r.price # NaN /\ w.filter_price[1] <= r.price /\ r.price <= w.filter_price[2]
    /\ r.area # NaN /\ w.filter_area[1] <= r.area /\ r.area <= w.filter_area[2]
    /\ r.bedrooms # NaN /\ r.bedrooms >= w.filter_bedrooms
    /\ r.bathrooms # NaN /\ r.bathrooms >= w.filter_bathrooms
    /\ KeywordPredicate(r, w.keyword)

\* C1: after every run that reached the filter, the Filtered View is a subset
\* of the dataset, every row in it satisfies all six predicates of the Filter
\* Criteria, and every row of the dataset that is not in it fails one of them.
C1_FilterContract ==
    Filtered =>
        /\ Range(df_filtered) \subseteq Range(Get(data))
        /\ \A r \in Range(Get(data)) : r \in Range(df_filtered) <=> AllPredicates(r, W)

\* C2: in every run in which the Filtered View has no row, the empty-result
\* condition is signalled and no aggregate, no chart, no top-N table and no
\* listing-sourced mortgage price is computed.
C2_EmptyShortCircuit ==
    (data # None /\ df_filtered = <<>>) =>
        /\ status = "empty"
        /\ agg = None
        /\ top_listings = <<>>
        /\ harga_juta = None
        /\ kpr = NoKpr

C2_Witness == status = "empty" /\ W.filter_kota = {} /\ df_filtered = <<>>

\* the sidebar is at its defaults
DefaultCriteria ==
    LET d == SidebarDefaults(Get(data))
    IN \A f \in DOMAIN d : W[f] = d[f]

\* C4: with the default Filter Criteria the Filtered View is the whole
\* normalized dataset, rows with a null numeric field included.
C4_DefaultsExcludeNothing ==
    (Filtered /\ DefaultCriteria) => df_filtered = Get(data)

\* C5: a mortgage result exists only after a run that the press of the
\* compute button started; a run started by a change of a widget (price
\* source, listing, down payment, rate, tenor, a filter) leaves none.
C5_ComputeOnlyOnButton == trigger # "hitung" => kpr = NoKpr

C5_Witness ==
    /\ status = "ok"
    /\ trigger = "widget"
    /\ W.mode = ModeManual
    /\ W.dp_persen # DpDefault
    /\ W.bunga_tahunan # BungaDefault
    /\ W.tenor_tahun # TenorDefault
    /\ W.keyword # <<>>
    /\ kpr = NoKpr

\* C6: for a non-empty Filtered View of R rows and a chosen N, the top-N table
\* has min(N, R) rows, by price descending, and rows of equal price are in
\* their original row order.
C6_TopNStable ==
    status = "ok" =>
        /\ Len(top_listings) = Min(W.top_n, Len(df_filtered))
        /\ \A i \in 1..(Len(top_listings) - 1) :
              /\ top_listings[i].price >= top_listings[i + 1].price
              /\ top_listings[i].price = top_listings[i + 1].price
                    => top_listings[i].index < top_listings[i + 1].index

\* C7: a row that passes the five column predicates is kept if and only if
\* the keyword is empty after trimming or occurs, case-insensitively and as a
\* plain substring, in its title or its location (a null text never matches).
C7_KeywordPlainSubstring ==
    Filtered =>
        \A r \in Range(Get(data)) :
            BaseMask(r, W) => (r \in Range(df_filtered) <=> KeywordPredicate(r, W.keyword))

\* a complete run: the view of its own Filter Criteria, and the KPIs, the
\* top-N table, the export and the mortgage price computed from that view
CompleteRun ==
    /\ status = "ok"
    /\ df_filtered = ApplyFilter(Get(data), W)
    /\ agg # None
    /\ Get(agg).total_listing = Len(df_filtered)
    /\ Len(top_listings) = Min(W.top_n, Len(df_filtered))
    /\ csv # None
    /\ Len(Get(csv).rows) = Len(df_filtered)
    /\ harga_juta # None

\* C8: a halt ends only its run.  The run after one that halted on an empty
\* Filtered View, when its Filter Criteria match a row, is a complete run
\* whose aggregates are those of its own criteria; the run after one that
\* halted on the missing file, once the file is there, loads the data.
C8_FreshRunAfterHalt ==
    [][(vars' # vars /\ fileExists' = fileExists) =>
          /\ (status = "empty" /\ ApplyFilter(Get(data), Get(widgets')) # <<>>)
                => CompleteRun'
          /\ (status = "missing_file" /\ fileExists)
                => (Filtered' /\ data' = Some(load_data(raw)))]_vars

C8_Witness == status = "ok" /\ prev_status = "empty" /\ agg # None

\* C9: once loaded, the normalized dataset (price_per_m2 of every row
\* included) is the same after every interaction.
C9_DatasetNeverMutated == [][data # None => data' = data]_vars

C9_Witness ==
    /\ data = Some(load_data(raw))
    /\ status = "ok"
    /\ trigger = "hitung"
    /\ kpr.status = "ok"
    /\ W.mode = ModeListing
    /\ W.idx # 0
    /\ W.keyword # <<>>
    /\ W.top_n # TopNDefault
    /\ Len(df_filtered) < Len(Get(data))

(***************************************************************************)
(* Properties of the calculator (SpecCalc)                                 *)
(***************************************************************************)
Calculated == status = "calculator" /\ trigger = "hitung"

\* principal in units of RupiahUnit rupiah, and the number of months
Principal == Get(harga_juta) * JutaUnits - Get(harga_juta) * W.dp_persen

Months == W.tenor_tahun * 12

\* C3: called with a principal <= 0 or a number of months <= 0, the
\* calculation signals an error, performs no division and shows no amount.
C3_RejectsNonPositive ==
    (Calculated /\ (Principal <= 0 \/ Months <= 0)) =>
        /\ kpr.status = "invalid_price"
        /\ kpr.divisions = {}
        /\ kpr.shown = {}

ZeroRateCase ==
    Calculated /\ W.bunga_tahunan = 0 /\ Principal > 0 /\ W.tenor_tahun \in 1..30

\* |d| is at most one unit in the last place of the double p > 0
AtMostOneUlp(d, p) ==
    \/ d.man = <<>>
    \/ d.exp + MantissaBits - 1 < p.exp
    \/ d.exp + MantissaBits - 1 = p.exp /\ d.man = <<1>> \o Zeros(MantissaBits - 1)

\* C10: at rate 0, for a positive principal and a tenor of 1 to 30 years, the
\* zero-rate branch is taken, total_bayar is the principal or one of the two
\* doubles next to it, and total_bunga is at most one unit in the last place
\* of the principal in size.
C10_ZeroRateWithinOneUlp ==
    ZeroRateCase =>
        LET p == DoubleOfUnits(Principal)
        IN /\ kpr.status = "ok"
           /\ kpr.divisions = {418, 438}
           /\ kpr.total_bayar \in {FloatPrev(p), p, FloatNext(p)}
           /\ AtMostOneUlp(kpr.total_bunga, p)

C10_Witness == ZeroRateCase /\ kpr.status = "ok" /\ kpr.total_bunga # FloatZero

\* C10 as stated: at rate 0 total_bayar is exactly the principal and
\* total_bunga is exactly 0.
C10_ZeroRateExact ==
    ZeroRateCase =>
        /\ kpr.total_bayar = DoubleOfUnits(Principal)
        /\ kpr.total_bunga = FloatZero

(***************************************************************************)
(* Properties of the page, continued                                       *)
(***************************************************************************)
\* C12: whatever the user sets on the page, a mortgage computation that
\* passes the price check has a non-null price above 0, a principal above 0
\* and at least 12 months, and ends without a division by zero.
C12_NonZeroDenominators ==
    (trigger = "hitung" /\ kpr.status # "invalid_price") =>
        /\ harga_juta # None
        /\ Get(harga_juta) # NaN
        /\ Get(harga_juta) > 0
        /\ kpr.pokok_pinjaman > 0
        /\ kpr.n_bulan >= 12
        /\ kpr.status = "ok"
        /\ kpr.divisions = {416, 438}

C12_Witness ==
    /\ trigger = "hitung"
    /\ kpr.status = "ok"
    /\ W.mode = ModeListing
    /\ W.dp_persen = 90
    /\ W.bunga_tahunan = 10
    /\ W.tenor_tahun = 1

\* C13: a run with an empty Filtered View offers no export and no mortgage
\* computation (the button and the price input do not exist), and an export
\* or a mortgage result exists, or can be asked for, only after a run whose
\* Filtered View has a row.
C13_HaltBeforeTabs ==
    /\ status = "empty" =>
          /\ csv = None
          /\ kpr = NoKpr
          /\ ~ENABLED ClickHitung
          /\ ~ENABLED ClickDownload
          /\ ~ENABLED SetHarga
    /\ (csv # None \/ kpr # NoKpr \/ ENABLED ClickHitung \/ ENABLED ClickDownload)
          => (status = "ok" /\ df_filtered # <<>>)

C13_Witness ==
    /\ status = "empty"
    /\ prev_status = "ok"
    /\ W.filter_kota # {}
    /\ csv = None

(***************************************************************************)
(* Properties of the annuity expression (SpecAnnuity)                      *)
(***************************************************************************)
BothEvaluated == status = "annuity" /\ Len(kpr.results) = 2

====
